---- MODULE Spec2Model ----
\* Evaluation -> decision -> release pipeline of adhyayan-agentic-oer:
\* the Decision Engine (accounts/services/decision_maker.py) and the
\* Release Gate (accounts/services/admin_agent.py) over the Django tables
\* UploadCheck, ContentScore, ReleasedContent, ChapterPolicy, DecisionRun.
EXTENDS Integers, Sequences, FiniteSets, TLC

VARIABLES
    db,     \* the database: one record holding every table the pipeline touches
    now,    \* timezone.now(), an integer clock
    cfg,    \* settings.DECISION_MAKER, and the flags the caller passes to decide
    procs,  \* in-flight decide_for_chapter calls (position and locals of each)
    last    \* the operation that produced this state: its arguments and result

vars == <<db, now, cfg, procs, last>>

-----------------------------------------------------------------------------
\* Bounds of the model.

\* chapters of the course in the release-gate specification
GateChapters == 4
\* DecisionRun rows a behaviour may insert
MaxRuns == 2
\* candidates handed to rank_uploads in the ranking specification
MaxCands == 2

\* score values the ranking specification draws (the code clamps to 0..10)
ScoreVals == {1, 2}
\* timestamps the specifications draw
TsVals == {1, 2}

-----------------------------------------------------------------------------
\* Values.

\* a null score field (ContentScore fields are null=True); also the value the
\* sort key uses for it, float("-inf"): below every score in 0..10
NULL == 0 - 1
\* a null foreign key (DecisionRun.selected_upload)
NoUpload == 0

\* ContentScore's numeric fields in the order _available_score_fields returns
Fields == <<"accuracy", "clarity", "coherence", "completeness", "engagement">>

FieldSet == {Fields[i] : i \in 1..Len(Fields)}

DEFAULT_PRIORITY == <<"accuracy", "completeness", "coherence", "clarity", "engagement">>

\* float("-inf") as a composite; every other composite is num/den with den > 0
NegInf == [num |-> 0, den |-> 0]

RECURSIVE SeqSum(_)
SeqSum(s) == IF s = <<>> THEN 0 ELSE Head(s) + SeqSum(Tail(s))

\* The weights of the fields: cfg.weights.get(f, 1.0) for each available field.
_resolve_weights(c) == [f \in FieldSet |-> c.weights[f]]

\* priority_clean + tail; every entry of DEFAULT_PRIORITY is an available field
\* and the tail is the available fields not in it (none).
_resolve_priority(c) ==
    LET inPrio(f) == \E i \in 1..Len(DEFAULT_PRIORITY) : DEFAULT_PRIORITY[i] = f
        tail == SelectSeq(Fields, LAMBDA f : ~inPrio(f))
    IN  SelectSeq(DEFAULT_PRIORITY, LAMBDA p : p \in FieldSet) \o tail

\* One pass of the loop of _weighted_average over weights.items(), from field i.
RECURSIVE WeightedLoop(_, _, _, _, _)
WeightedLoop(scores, weights, missing, i, acc) ==
    IF i > Len(Fields) THEN acc
    ELSE LET k == Fields[i]
             w == weights[k]
             v == scores[k]
         IN  IF w = 0 THEN WeightedLoop(scores, weights, missing, i + 1, acc)
             ELSE IF v = NULL
                  THEN IF missing = "zero"
                       THEN WeightedLoop(scores, weights, missing, i + 1,
                                         [acc EXCEPT !.den = @ + w])
                       ELSE WeightedLoop(scores, weights, missing, i + 1, acc)
                  ELSE WeightedLoop(scores, weights, missing, i + 1,
                                    [num |-> acc.num + v * w, den |-> acc.den + w])

\* A plausible slip: a missing value adds its weight to the denominator under
\* either policy.
WeightedAverageAlwaysCounts(scores, weights, missing) ==
    LET r == WeightedLoop(scores, weights, "zero", 1, [num |-> 0, den |-> 0])
    IN  IF r.den <= 0 THEN NegInf ELSE r

_weighted_average(scores, weights, missing) ==
    LET r == WeightedLoop(scores, weights, missing, 1, [num |-> 0, den |-> 0])
    IN  IF r.den <= 0 THEN NegInf ELSE r

\* A plausible slip: a missing value is left out under either policy.
SimpleAverageSkipsMissing(scores, missing) ==
    LET vals == [i \in 1..Len(Fields) |->
                    IF scores[Fields[i]] = NULL THEN 0 ELSE scores[Fields[i]]]
        cnt  == [i \in 1..Len(Fields) |->
                    IF scores[Fields[i]] = NULL THEN 0 ELSE 1]
    IN  IF SeqSum(cnt) = 0 THEN NegInf
        ELSE [num |-> SeqSum(vals), den |-> SeqSum(cnt)]

_simple_average(scores, missing) ==
    LET vals == [i \in 1..Len(Fields) |->
                    IF scores[Fields[i]] = NULL THEN 0 ELSE scores[Fields[i]]]
        cnt  == [i \in 1..Len(Fields) |->
                    IF scores[Fields[i]] = NULL
                    THEN (IF missing = "zero" THEN 1 ELSE 0) ELSE 1]
    IN  IF SeqSum(cnt) = 0 THEN NegInf
        ELSE [num |-> SeqSum(vals), den |-> SeqSum(cnt)]

\* Comparison of two composites as floats: num/den, with -inf below all.
CompLess(a, b) ==
    IF b.den = 0 THEN FALSE
    ELSE IF a.den = 0 THEN TRUE
    ELSE a.num * b.den < b.num * a.den

CompEq(a, b) ==
    IF a.den = 0 \/ b.den = 0 THEN a.den = b.den
    ELSE a.num * b.den = b.num * a.den

\* Python's comparison of two tuples of numbers of one length.
RECURSIVE TupleLess(_, _)
TupleLess(a, b) ==
    IF a = <<>> THEN FALSE
    ELSE IF Head(a) < Head(b) THEN TRUE
    ELSE IF Head(a) > Head(b) THEN FALSE
    ELSE TupleLess(Tail(a), Tail(b))

\* A plausible slip: the key ends at the timestamp, without the upload id.
SortKeyNoId(c, priority) ==
    LET tiebreak_vals == [i \in 1..Len(priority) |-> c.scores[priority[i]]]
        non_null == Cardinality({f \in FieldSet : c.scores[f] # NULL})
    IN  [composite |-> c.composite_score,
         rest |-> tiebreak_vals \o <<non_null, c.timestamp>>]

\* A plausible slip: the non-null count is compared before the priority list.
SortKeyCountFirst(c, priority) ==
    LET tiebreak_vals == [i \in 1..Len(priority) |-> c.scores[priority[i]]]
        non_null == Cardinality({f \in FieldSet : c.scores[f] # NULL})
    IN  [composite |-> c.composite_score,
         rest |-> <<non_null>> \o tiebreak_vals \o <<c.timestamp, c.upload_id>>]

\* sort_key of rank_uploads: (composite, *tiebreak_vals, non_null, timestamp, id)
sort_key(c, priority) ==
    LET tiebreak_vals == [i \in 1..Len(priority) |-> c.scores[priority[i]]]
        non_null == Cardinality({f \in FieldSet : c.scores[f] # NULL})
    IN  [composite |-> c.composite_score,
         rest |-> tiebreak_vals \o <<non_null, c.timestamp, c.upload_id>>]

KeyLess(k1, k2) ==
    \/ CompLess(k1.composite, k2.composite)
    \/ CompEq(k1.composite, k2.composite) /\ TupleLess(k1.rest, k2.rest)

\* list.sort(key=sort_key, reverse=True): a stable sort, largest key first;
\* elements whose keys compare equal keep the order they had in the list.
RECURSIVE InsertDesc(_, _, _)
InsertDesc(c, sorted, priority) ==
    IF sorted = <<>> THEN <<c>>
    ELSE IF KeyLess(sort_key(Head(sorted), priority), sort_key(c, priority))
         THEN <<c>> \o sorted
         ELSE <<Head(sorted)>> \o InsertDesc(c, Tail(sorted), priority)

RECURSIVE SortDesc(_, _)
SortDesc(cands, priority) ==
    IF cands = <<>> THEN <<>>
    ELSE InsertDesc(cands[Len(cands)], SortDesc(SubSeq(cands, 1, Len(cands) - 1), priority),
                    priority)

\* rank_uploads over the uploads in the order the query returned them. An upload
\* is [id, timestamp, has_score, scores]; one without a ContentScore row or
\* with composite -inf is skipped.
rank_uploads(uploads, c) ==
    LET priority == _resolve_priority(c)
        weights  == _resolve_weights(c)
        comp(u)  == IF c.primary_strategy = "simple_average"
                    THEN _simple_average(u.scores, c.missing_strategy)
                    ELSE _weighted_average(u.scores, weights, c.missing_strategy)
        kept     == SelectSeq(uploads, LAMBDA u : u.has_score /\ comp(u) # NegInf)
        candidates == [i \in 1..Len(kept) |->
                          [upload_id |-> kept[i].id,
                           timestamp |-> kept[i].timestamp,
                           composite_score |-> comp(kept[i]),
                           scores |-> kept[i].scores]]
    IN  SortDesc(candidates, priority)

-----------------------------------------------------------------------------
\* The database.

\* The tables before any upload: no rows at all.
EmptyDb ==
    [chapters   |-> <<>>,    \* Chapter ids of the course, by chapter_number
     chapterOf  |-> <<>>,    \* UploadCheck.chapter, by upload id
     timestamp  |-> <<>>,    \* UploadCheck.timestamp
     evaluated  |-> <<>>,    \* UploadCheck.evaluation_status
     has_score  |-> <<>>,    \* whether the upload has its ContentScore row
     scores     |-> <<>>,    \* ContentScore's five fields
     is_best    |-> <<>>,    \* ContentScore.is_best
     released   |-> <<>>,    \* ReleasedContent: "none" (no row), "no", "yes"
     policy     |-> <<>>,    \* ChapterPolicy by chapter, or NoPolicy
     release_policy |-> [exists |-> FALSE, threshold_percentage |-> 80,
                         auto_release_enabled |-> TRUE],
     runs       |-> <<>>]    \* DecisionRun rows in order of creation

NoCall == [op |-> "none"]

-----------------------------------------------------------------------------
\* Ranking specification: rank_uploads as a function of the uploads it is
\* given, the order they were loaded in, and the configuration.

AllOnes == [f \in FieldSet |-> 1]

\* settings.DECISION_MAKER["weights"]: the default (1.0 each) and one that
\* doubles accuracy and leaves engagement out of the composite
WeightChoices ==
    {AllOnes, [AllOnes EXCEPT !["accuracy"] = 2, !["engagement"] = 0]}

\* The score rows the specifications draw: accuracy and engagement vary on
\* their own, completeness, coherence and clarity together.
ScoreMaps ==
    {[f \in FieldSet |->
        IF f = "accuracy" THEN a ELSE IF f = "engagement" THEN e ELSE c] :
        a \in ScoreVals \cup {NULL}, c \in {NULL, 1}, e \in {NULL, 1}}

\* all orders of the elements of a set
RECURSIVE Perms(_)
Perms(S) ==
    IF S = {} THEN {<<>>}
    ELSE UNION {{<<x>> \o p : p \in Perms(S \ {x})} : x \in S}

RankInit ==
    /\ db = EmptyDb
    /\ now = 0
    /\ procs = <<>>
    /\ cfg \in [primary_strategy : {"weighted_average"},
                missing_strategy : {"ignore", "zero"},
                weights : WeightChoices]
    /\ \E n \in 1..MaxCands :
         \E sm \in [1..n -> ScoreMaps], tm \in [1..n -> TsVals] :
           last = [op |-> "loaded",
                   uploads |-> {[id |-> i, timestamp |-> tm[i], has_score |-> TRUE,
                                 scores |-> sm[i]] : i \in 1..n}]

\* rank_uploads is called with the uploads in some order.
Rank ==
    /\ last.op = "loaded"
    /\ \E order \in Perms(last.uploads) :
         last' = [op |-> "ranked", uploads |-> last.uploads,
                  ranked |-> rank_uploads(order, cfg)]
    /\ UNCHANGED <<db, now, cfg, procs>>

RankNext == Rank

SpecRank == RankInit /\ [][RankNext]_vars

-----------------------------------------------------------------------------
\* Properties of the ranking.

RECURSIVE SumOver(_, _)
SumOver(S, g) ==
    IF S = {} THEN 0
    ELSE LET x == CHOOSE y \in S : TRUE IN g[x] + SumOver(S \ {x}, g)

RankedSet == {last.ranked[i] : i \in 1..Len(last.ranked)}

NonNullCount(c) == Cardinality({f \in FieldSet : c.scores[f] # NULL})

\* a and b agree on the first n entries of the priority list
AgreeUpTo(a, b, n) ==
    \A i \in 1..n : a.scores[DEFAULT_PRIORITY[i]] = b.scores[DEFAULT_PRIORITY[i]]

\* The order the ranking is said to follow: a is ranked before b.
RankedBefore(a, b) ==
    \/ CompLess(b.composite_score, a.composite_score)
    \/ /\ CompEq(a.composite_score, b.composite_score)
       /\ \/ \E i \in 1..Len(DEFAULT_PRIORITY) :
               /\ AgreeUpTo(a, b, i - 1)
               /\ a.scores[DEFAULT_PRIORITY[i]] > b.scores[DEFAULT_PRIORITY[i]]
          \/ /\ AgreeUpTo(a, b, Len(DEFAULT_PRIORITY))
             /\ \/ NonNullCount(a) > NonNullCount(b)
                \/ /\ NonNullCount(a) = NonNullCount(b)
                   /\ \/ a.timestamp > b.timestamp
                      \/ a.timestamp = b.timestamp /\ a.upload_id > b.upload_id

\* C6: rank_uploads orders the candidates by composite descending, then by
\* the priority-list dimensions (a missing value lowest), then by the number
\* of non-null dimensions, then newer timestamp, then submission id; the
\* order is strict and total, so the result is the same for every order the
\* submissions were loaded in; on a composite tie the higher accuracy wins.
C6_RankOrder ==
    last.op = "ranked" =>
        /\ \A i, j \in 1..Len(last.ranked) :
             i < j => RankedBefore(last.ranked[i], last.ranked[j])
        /\ \A a, b \in RankedSet :
             a # b => (RankedBefore(a, b) <=> ~RankedBefore(b, a))
        /\ \A order \in Perms(last.uploads) :
             rank_uploads(order, cfg) = last.ranked
        /\ \A i, j \in 1..Len(last.ranked) :
             (/\ CompEq(last.ranked[i].composite_score, last.ranked[j].composite_score)
              /\ last.ranked[i].scores["accuracy"] > last.ranked[j].scores["accuracy"])
             => i < j

\* Two composites tie and the winner has the higher accuracy and fewer
\* dimensions filled.
C6_Witness ==
    /\ last.op = "ranked"
    /\ Len(last.ranked) >= 2
    /\ CompEq(last.ranked[1].composite_score, last.ranked[2].composite_score)
    /\ last.ranked[1].scores["accuracy"] > last.ranked[2].scores["accuracy"]
    /\ NonNullCount(last.ranked[1]) < NonNullCount(last.ranked[2])

\* The dimensions that enter the numerator, and those that enter the
\* denominator, of an upload's composite under a missing-value policy.
InNumerator(u) == {f \in FieldSet : cfg.weights[f] # 0 /\ u.scores[f] # NULL}

InDenominator(u, missing) ==
    IF missing = "zero" THEN {f \in FieldSet : cfg.weights[f] # 0}
    ELSE InNumerator(u)

Numerator(u) ==
    SumOver(InNumerator(u), [f \in FieldSet |-> u.scores[f] * cfg.weights[f]])

Denominator(u, missing) == SumOver(InDenominator(u, missing), cfg.weights)

\* C7: the composite is the weighted average in which a missing dimension is
\* left out of numerator and denominator under "ignore" and adds its weight
\* to the denominator only under "zero" (so it is not higher than under
\* "ignore"); a candidate whose denominator is zero is not ranked.
C7_Composite ==
    last.op = "ranked" =>
        \A u \in last.uploads :
            LET den == Denominator(u, cfg.missing_strategy)
                hit == {c \in RankedSet : c.upload_id = u.id}
            IN  /\ (den = 0) <=> (hit = {})
                /\ \A c \in hit :
                     /\ c.composite_score.den > 0
                     /\ c.composite_score.num * den = Numerator(u) * c.composite_score.den
                /\ Denominator(u, "ignore") > 0 =>
                     ~CompLess(_weighted_average(u.scores, cfg.weights, "ignore"),
                               _weighted_average(u.scores, cfg.weights, "zero"))

\* Under "zero" a ranked candidate lacks engagement alone and its composite
\* is below what "ignore" gives it; another upload is left out of the ranking.
C7_Witness ==
    /\ last.op = "ranked"
    /\ cfg.missing_strategy = "zero"
    /\ \E c \in RankedSet :
         /\ c.scores["engagement"] = NULL
         /\ \A f \in FieldSet \ {"engagement"} : c.scores[f] # NULL
         /\ CompLess(c.composite_score,
                     _weighted_average(c.scores, cfg.weights, "ignore"))

\* Under "ignore" an upload with no score at all is left out of the ranking
\* while one lacking engagement alone is ranked.
C7_WitnessExcluded ==
    /\ last.op = "ranked"
    /\ cfg.missing_strategy = "ignore"
    /\ \E u \in last.uploads : \A c \in RankedSet : c.upload_id # u.id
    /\ \E c \in RankedSet :
         /\ c.scores["engagement"] = NULL
         /\ \A f \in FieldSet \ {"engagement"} : c.scores[f] # NULL

-----------------------------------------------------------------------------
\* Queries over the database.

Uploads(d) == DOMAIN d.chapterOf

UploadsOf(d, ch) == {u \in Uploads(d) : d.chapterOf[u] = ch}

ChapterSet(d) == {d.chapters[i] : i \in 1..Len(d.chapters)}

\* ChapterPolicy.current_deadline when null
NoDeadline == 0 - 1

NoPolicy == [exists |-> FALSE, current_deadline |-> NoDeadline, min_contributions |-> 1]

\* ChapterPolicy.is_open
is_open(pol, t) ==
    IF pol.current_deadline = NoDeadline THEN TRUE
    ELSE t <= pol.current_deadline

\* UploadCheck.objects.filter(chapter_id=..).order_by("-timestamp"), with
\* evaluation_status=True when only_evaluated: every order of the rows that
\* has the timestamps descending (rows of one timestamp come in any order).
LoadOrders(d, ch, only_evaluated) ==
    LET rows == {u \in UploadsOf(d, ch) : only_evaluated => d.evaluated[u]}
    IN  {o \in Perms(rows) :
            \A i, j \in 1..Len(o) : i < j => d.timestamp[o[i]] >= d.timestamp[o[j]]}

\* The uploads as rank_uploads reads them, with the prefetched content_score.
UploadRows(d, order) ==
    [i \in 1..Len(order) |->
        [id |-> order[i], timestamp |-> d.timestamp[order[i]],
         has_score |-> d.has_score[order[i]], scores |-> d.scores[order[i]]]]

\* The uploads of a chapter whose ContentScore has is_best = True.
BestOf(d, ch) == {u \in UploadsOf(d, ch) : d.has_score[u] /\ d.is_best[u]}

\* AdminAgentService._chapter_is_complete
_chapter_is_complete(d, ch) == BestOf(d, ch) # {}

\* AdminAgentService._best_upload_for_chapter: the first row by -timestamp of
\* the chapter's best uploads, any of them when several share the newest
\* timestamp; NoUpload when there is none.
BestUploadChoices(d, ch) ==
    IF BestOf(d, ch) = {} THEN {NoUpload}
    ELSE {u \in BestOf(d, ch) : \A v \in BestOf(d, ch) : d.timestamp[v] <= d.timestamp[u]}

\* One answer of _best_upload_for_chapter for every chapter of the course.
BestPicks(d) ==
    IF \A ch \in ChapterSet(d) : Cardinality(BestUploadChoices(d, ch)) = 1
    THEN {[ch \in ChapterSet(d) |-> CHOOSE u \in BestUploadChoices(d, ch) : TRUE]}
    ELSE {pick \in [ChapterSet(d) -> Uploads(d) \cup {NoUpload}] :
            \A ch \in ChapterSet(d) : pick[ch] \in BestUploadChoices(d, ch)}

-----------------------------------------------------------------------------
\* The Release Gate: accounts/services/admin_agent.py.

DEFAULT_THRESHOLD_PERCENT == 80

\* A plausible slip: the percentage is rounded up.
RequiredChaptersCeil(total_chapters, threshold_percentage) ==
    IF total_chapters <= 0 THEN 0
    ELSE IF threshold_percentage <= 0 THEN 0
    ELSE LET required == (threshold_percentage * total_chapters + 99) \div 100
         IN  IF required < 1 THEN 1 ELSE required

\* AdminAgentService._required_chapters
_required_chapters(total_chapters, threshold_percentage) ==
    IF total_chapters <= 0 THEN 0
    ELSE IF threshold_percentage <= 0 THEN 0
    ELSE LET required == (threshold_percentage * total_chapters) \div 100
         IN  IF required < 1 THEN 1 ELSE required

\* ReleasedContent.objects.filter(upload__in=S).update(release_status=False):
\* only rows that exist are written.
Unrelease(rel, S) ==
    [u \in DOMAIN rel |-> IF u \in S /\ rel[u] = "yes" THEN "no" ELSE rel[u]]

\* The length of the leading run of TRUE in a sequence of flags.
RECURSIVE PrefixLen(_)
PrefixLen(flags) ==
    IF flags = <<>> \/ ~Head(flags) THEN 0 ELSE 1 + PrefixLen(Tail(flags))

\* The loop of process_course over enumerate(chapters), from index idx (from 1).
RECURSIVE ReleaseLoop(_, _, _, _, _)
ReleaseLoop(d, rel, idx, prefix_len, pick) ==
    IF idx > Len(d.chapters) THEN rel
    ELSE LET ch == d.chapters[idx]
             allowed == (idx - 1) < prefix_len
             cleared == Unrelease(rel, UploadsOf(d, ch))
             best_upload == pick[ch]
         IN  IF best_upload = NoUpload
             THEN ReleaseLoop(d, cleared, idx + 1, prefix_len, pick)
             ELSE ReleaseLoop(d,
                      [cleared EXCEPT ![best_upload] = IF allowed THEN "yes" ELSE "no"],
                      idx + 1, prefix_len, pick)

\* A plausible slip: every chapter with a winner is released, whatever comes
\* before it.
ProcessCourseNoPrefix(d, pick) ==
    LET total == Len(d.chapters)
        threshold == IF d.release_policy.exists
                     THEN d.release_policy.threshold_percentage
                     ELSE DEFAULT_THRESHOLD_PERCENT
        required == _required_chapters(total, threshold)
        complete_flags == [i \in 1..total |-> _chapter_is_complete(d, d.chapters[i])]
        completed_count == Cardinality({i \in 1..total : complete_flags[i]})
    IN  [db |-> [d EXCEPT !.released = ReleaseLoop(d, d.released, 1, total, pick)],
         ret |-> [status |-> "processed", prefix_len |-> PrefixLen(complete_flags),
                  completed |-> completed_count, required |-> required]]

\* the number of leading chapters whose winner is released
RECURSIVE ReleasedPrefix(_, _, _)
ReleasedPrefix(d, idx, pick) ==
    IF idx > Len(d.chapters) THEN 0
    ELSE LET best_upload == pick[d.chapters[idx]]
         IN  IF best_upload # NoUpload /\ d.released[best_upload] = "yes"
             THEN 1 + ReleasedPrefix(d, idx + 1, pick)
             ELSE 0

\* A plausible slip: an incremental gate, which opens at most one more
\* chapter per run.
ProcessCourseIncremental(d, pick) ==
    LET total == Len(d.chapters)
        threshold == IF d.release_policy.exists
                     THEN d.release_policy.threshold_percentage
                     ELSE DEFAULT_THRESHOLD_PERCENT
        required == _required_chapters(total, threshold)
        complete_flags == [i \in 1..total |-> _chapter_is_complete(d, d.chapters[i])]
        completed_count == Cardinality({i \in 1..total : complete_flags[i]})
        full == PrefixLen(complete_flags)
        next == ReleasedPrefix(d, 1, pick) + 1
        prefix_len == IF next < full THEN next ELSE full
        none == [prefix_len |-> 0, completed |-> 0, required |-> 0]
    IN  IF total = 0 THEN [db |-> d, ret |-> [status |-> "no_chapters"] @@ none]
        ELSE IF d.release_policy.exists /\ ~d.release_policy.auto_release_enabled
        THEN [db |-> d, ret |-> [status |-> "disabled"] @@ none]
        ELSE IF completed_count < required
        THEN [db |-> [d EXCEPT !.released = Unrelease(d.released, Uploads(d))],
              ret |-> [status |-> "skipped_threshold", prefix_len |-> 0,
                       completed |-> completed_count, required |-> required]]
        ELSE [db |-> [d EXCEPT !.released = ReleaseLoop(d, d.released, 1, prefix_len, pick)],
              ret |-> [status |-> "processed", prefix_len |-> prefix_len,
                       completed |-> completed_count, required |-> required]]

\* AdminAgentService.process_course: the new database and the returned report.
process_course(d, pick) ==
    LET total == Len(d.chapters)
        threshold == IF d.release_policy.exists
                     THEN d.release_policy.threshold_percentage
                     ELSE DEFAULT_THRESHOLD_PERCENT
        required == _required_chapters(total, threshold)
        complete_flags == [i \in 1..total |-> _chapter_is_complete(d, d.chapters[i])]
        completed_count == Cardinality({i \in 1..total : complete_flags[i]})
        prefix_len == PrefixLen(complete_flags)
        none == [prefix_len |-> 0, completed |-> 0, required |-> 0]
    IN  IF total = 0 THEN [db |-> d, ret |-> [status |-> "no_chapters"] @@ none]
        ELSE IF d.release_policy.exists /\ ~d.release_policy.auto_release_enabled
        THEN [db |-> d, ret |-> [status |-> "disabled"] @@ none]
        ELSE IF completed_count < required
        THEN [db |-> [d EXCEPT !.released = Unrelease(d.released, Uploads(d))],
              ret |-> [status |-> "skipped_threshold", prefix_len |-> 0,
                       completed |-> completed_count, required |-> required]]
        ELSE [db |-> [d EXCEPT !.released = ReleaseLoop(d, d.released, 1, prefix_len, pick)],
              ret |-> [status |-> "processed", prefix_len |-> prefix_len,
                       completed |-> completed_count, required |-> required]]

\* mcp_server.db_release_content: get_or_create the row and set its status.
db_release_content(d, upload_id, release_status) ==
    [d EXCEPT !.released[upload_id] = IF release_status THEN "yes" ELSE "no"]

-----------------------------------------------------------------------------
\* The Decision Engine: accounts/services/decision_maker.py.

\* DecisionRun.objects.filter(chapter=chapter, is_latest=True).update(is_latest=False)
UnsetLatest(runs, ch) ==
    [i \in 1..Len(runs) |->
        IF runs[i].chapter = ch THEN [runs[i] EXCEPT !.is_latest = FALSE] ELSE runs[i]]

\* DecisionRun.objects.create(..., is_latest=True), and with it the post_save
\* receiver auto_run_admin_agent (models.py, signals.py), which runs the
\* release gate on the chapter's course before create returns.
InsertRun(d, ch, status, selected, ranking, pick) ==
    LET row == [chapter |-> ch, selected_upload |-> selected, status |-> status,
                ranking |-> ranking, is_latest |-> TRUE]
    IN  process_course([d EXCEPT !.runs = Append(@, row)], pick).db

\* A plausible slip: the previous latest row is not unset.
CreateDecisionRunKeepsLatest(d, ch, status, selected, ranking, pick) ==
    InsertRun(d, ch, status, selected, ranking, pick)

\* DecisionMakerService._create_decision_run
_create_decision_run(d, ch, status, selected, ranking, pick) ==
    InsertRun([d EXCEPT !.runs = UnsetLatest(@, ch)], ch, status, selected, ranking, pick)

\* DecisionMakerService._persist_or_return_none
_persist_or_return_none(d, ch, status, persist, pick) ==
    IF persist THEN _create_decision_run(d, ch, status, NoUpload, <<>>, pick) ELSE d

\* ContentScore.objects.filter(upload__chapter_id=chapter_id).update(is_best=False)
ClearBest(d, ch) ==
    [d EXCEPT !.is_best = [u \in DOMAIN @ |-> IF u \in UploadsOf(d, ch) THEN FALSE ELSE @[u]]]

\* ContentScore.objects.filter(upload_id=upload_id).update(is_best=True)
SetBest(d, upload_id) ==
    IF d.has_score[upload_id] THEN [d EXCEPT !.is_best[upload_id] = TRUE] ELSE d

\* A plausible slip: the other uploads of the chapter keep their flag.
MarkBestNoClear(d, ch, upload_id) == SetBest(d, upload_id)

\* DecisionMakerService._mark_best_upload
_mark_best_upload(d, ch, upload_id) == SetBest(ClearBest(d, ch), upload_id)

\* ReleasedContent.objects.filter(upload__chapter_id=chapter_id).update(release_status=False)
ClearReleased(d, ch) == [d EXCEPT !.released = Unrelease(@, UploadsOf(d, ch))]

\* ReleasedContent.objects.update_or_create(upload_id=.., defaults={"release_status": True})
SetReleased(d, upload_id) == [d EXCEPT !.released[upload_id] = "yes"]

\* A plausible slip: the chapter's other rows are not cleared.
AutoReleaseNoClear(d, ch, winner_upload_id) == SetReleased(d, winner_upload_id)

\* DecisionMakerService._auto_release
_auto_release(d, ch, winner_upload_id) == SetReleased(ClearReleased(d, ch), winner_upload_id)

\* ranked[:top_k] as upload ids, with top_k = max(1, int(top_k_audit or 3))
Leaderboard(ranked, top_k_audit) ==
    LET k0 == IF top_k_audit = 0 THEN 3 ELSE top_k_audit
        top_k == IF k0 < 1 THEN 1 ELSE k0
        n == IF Len(ranked) < top_k THEN Len(ranked) ELSE top_k
    IN  [i \in 1..n |-> ranked[i].upload_id]

NoResult(status) == [status |-> status, selected |-> NoUpload, ranked |-> <<>>]

\* A plausible slip: force is not consulted by the deadline gate.
DeadlineGateNoForce(d, t, ch, o) ==
    d.policy[ch].exists /\ is_open(d.policy[ch], t)

\* A plausible slip: the policy's minimum is applied whatever the caller asked.
MinContributionsGateAlways(d, ch, o, order) ==
    d.policy[ch].exists /\ Len(order) < d.policy[ch].min_contributions

\* The deadline gate: policy and (not force) and policy.is_open
DeadlineGate(d, t, ch, o) ==
    d.policy[ch].exists /\ ~o.force /\ is_open(d.policy[ch], t)

\* The minimum-contributions gate, on the uploads the query returned
MinContributionsGate(d, ch, o, order) ==
    /\ d.policy[ch].exists
    /\ o.min_contributions_policy = "respect"
    /\ Len(order) < d.policy[ch].min_contributions

\* DecisionMakerService.decide_for_chapter run from start to end: the new
\* database and what the call found. order is the answer of the uploads
\* query, pick the answers of the release gate's best-upload queries.
decide_for_chapter(d, t, c, ch, o, order, pick) ==
    IF DeadlineGate(d, t, ch, o)
    THEN [db |-> _persist_or_return_none(d, ch, "not_due", o.persist, pick),
          ret |-> NoResult("not_due")]
    ELSE IF MinContributionsGate(d, ch, o, order)
    THEN [db |-> _persist_or_return_none(d, ch, "not_ready", o.persist, pick),
          ret |-> NoResult("not_ready")]
    ELSE LET ranked == rank_uploads(UploadRows(d, order), c)
         IN  IF ranked = <<>>
             THEN [db |-> _persist_or_return_none(d, ch, "no_candidates", o.persist, pick),
                   ret |-> NoResult("no_candidates")]
             ELSE LET winner == ranked[1]
                      d1 == IF o.persist
                            THEN _create_decision_run(d, ch, "ok", winner.upload_id,
                                     Leaderboard(ranked, o.top_k_audit), pick)
                            ELSE d
                      d2 == _mark_best_upload(d1, ch, winner.upload_id)
                      d3 == IF o.auto_release
                            THEN _auto_release(d2, ch, winner.upload_id)
                            ELSE d2
                  IN  [db |-> d3,
                       ret |-> [status |-> "ok", selected |-> winner.upload_id,
                                ranked |-> [i \in 1..Len(ranked) |-> ranked[i].upload_id]]]


-----------------------------------------------------------------------------
\* Decision specification: calls of decide_for_chapter and of the release
\* gate, one at a time, on a course whose first chapter has two uploads and
\* whose other chapters have one.

\* The course with n chapters: uploads 1 and 2 belong to chapter 1, upload
\* u > 2 to chapter u - 1.
Layout(n) ==
    [EmptyDb EXCEPT
        !.chapters  = [i \in 1..n |-> i],
        !.chapterOf = [u \in 1..(n + 1) |-> IF u <= 2 THEN 1 ELSE u - 1],
        !.timestamp = [u \in 1..(n + 1) |-> 1],
        !.evaluated = [u \in 1..(n + 1) |-> TRUE],
        !.has_score = [u \in 1..(n + 1) |-> TRUE],
        !.is_best   = [u \in 1..(n + 1) |-> FALSE],
        !.released  = [u \in 1..(n + 1) |-> "none"],
        !.policy    = [ch \in 1..n |-> NoPolicy]]

AllNull == [f \in FieldSet |-> NULL]

SeedHigh == [f \in FieldSet |-> IF f = "accuracy" THEN 2 ELSE 1]

SeedLow == [f \in FieldSet |-> IF f = "engagement" THEN NULL ELSE 1]

\* The policy of chapter 1 in the decision specifications: the deadline is
\* time 1 and two contributions are asked for. Chapter 2 has no policy.
SeedPolicy == [exists |-> TRUE, current_deadline |-> 1, min_contributions |-> 2]

\* the values of the clock: before, at and after the deadline
Times == {0, 1, 2}

DefaultConfig ==
    [primary_strategy |-> "weighted_average", missing_strategy |-> "ignore",
     weights |-> AllOnes]

\* The flags a caller passes on every call: the management command's
\* --include-unevaluated, --ignore-min-contrib and --auto-release.
CallerFlags ==
    [only_evaluated_uploads : BOOLEAN,
     min_contributions_policy : {"respect", "ignore"},
     auto_release : BOOLEAN]

\* The options of one call: the caller's flags with --force and --dry-run.
Options(flags, force, persist) ==
    [force |-> force, persist |-> persist, top_k_audit |-> 10,
     only_evaluated_uploads |-> flags.only_evaluated_uploads,
     min_contributions_policy |-> flags.min_contributions_policy,
     auto_release |-> flags.auto_release]

\* The two uploads of chapter 1 have the same scores and timestamp and differ
\* in evaluation status; chapter 2 holds one evaluated, scored upload.
DecisionDb(e1, e2) ==
    [Layout(2) EXCEPT
        !.scores = [u \in DOMAIN Layout(2).chapterOf |-> IF u = 3 THEN SeedLow ELSE SeedHigh],
        !.evaluated[1] = e1,
        !.evaluated[2] = e2,
        !.policy[1] = SeedPolicy]

DecisionInit ==
    /\ now = 0
    /\ procs = <<>>
    /\ last = NoCall
    /\ \E flags \in CallerFlags : cfg = [DefaultConfig EXCEPT !.weights = AllOnes] @@ [flags |-> flags]
    /\ \E e1 \in BOOLEAN, e2 \in BOOLEAN : db = DecisionDb(e1, e2)

\* One call of decide_for_chapter with options o, from start to end.
DecideWith(ch, o) ==
    /\ o.persist => Len(db.runs) < MaxRuns
    /\ \E order \in LoadOrders(db, ch, o.only_evaluated_uploads), pick \in BestPicks(db) :
         \E r \in {decide_for_chapter(db, now, cfg, ch, o, order, pick)} :
           /\ db' = r.db
           /\ last' = [op |-> "decide", ch |-> ch, o |-> o, ret |-> r.ret]
    /\ UNCHANGED <<now, cfg, procs>>

\* One call with the caller's flags.
Decide(ch, force, persist) == DecideWith(ch, Options(cfg.flags, force, persist))

\* One call of AdminAgentService.run_for_course.
ReleaseGate ==
    /\ \E pick \in BestPicks(db) :
         \E r \in {process_course(db, pick)} :
             /\ db' = r.db
             /\ last' = [op |-> "process_course", ret |-> r.ret,
                         again |-> last.op = "process_course"]
    /\ UNCHANGED <<now, cfg, procs>>

\* Time passes.
Tick ==
    /\ now + 1 \in Times
    /\ now' = now + 1
    /\ last' = [op |-> "tick"]
    /\ UNCHANGED <<db, cfg, procs>>

\* The evaluation of an upload finishes (submit_content.py:
\* UploadCheck.objects.filter(id=upload_id).update(evaluation_status=True)).
MarkEvaluated(upload_id) ==
    /\ ~db.evaluated[upload_id]
    /\ db' = [db EXCEPT !.evaluated[upload_id] = TRUE]
    /\ last' = [op |-> "mark_evaluated", upload_id |-> upload_id]
    /\ UNCHANGED <<now, cfg, procs>>

Next ==
    \/ \E ch \in ChapterSet(db), force \in BOOLEAN, persist \in BOOLEAN :
         Decide(ch, force, persist)
    \/ ReleaseGate
    \/ Tick
    \/ \E upload_id \in Uploads(db) : MarkEvaluated(upload_id)

Spec == DecisionInit /\ [][Next]_vars

-----------------------------------------------------------------------------
\* Properties of decide_for_chapter, one call at a time.

\* the rows of a chapter in the DecisionRun table, by position
RunsOf(d, ch) == {i \in 1..Len(d.runs) : d.runs[i].chapter = ch}

\* the is_latest rows of a chapter, without their position
LatestOf(d, ch) == {d.runs[i] : i \in {j \in RunsOf(d, ch) : d.runs[j].is_latest}}

\* the uploads the query of a call returns
CandidateCount(d, ch, o) ==
    Cardinality({u \in UploadsOf(d, ch) : o.only_evaluated_uploads => d.evaluated[u]})

\* C4: after any sequence of decide runs that do not overlap, whatever their
\* outcome, at most one DecisionRun of a chapter has is_latest = true, and it
\* is the chapter's most recently created row.
C4_OneLatest ==
    \A ch \in ChapterSet(db) :
        /\ Cardinality({i \in RunsOf(db, ch) : db.runs[i].is_latest}) <= 1
        /\ \A i \in RunsOf(db, ch) :
             db.runs[i].is_latest <=> (\A j \in RunsOf(db, ch) : j <= i)

\* A chapter has two rows of different status, the newer one latest.
C4_Witness ==
    \E i, j \in RunsOf(db, 1) :
        /\ i < j
        /\ db.runs[i].status # db.runs[j].status
        /\ db.runs[j].is_latest
        /\ ~db.runs[i].is_latest

\* C5: a decide run that directly follows a run on the same chapter with the
\* same options, nothing else having changed, finds the same ranking and the
\* same winner, and leaves the chapter's winner flags and latest audit row as
\* the first run left them.
C5_Idempotent ==
    [][(/\ last.op = "decide"
        /\ last'.op = "decide"
        /\ last'.ch = last.ch
        /\ last'.o = last.o)
       => (/\ last'.ret = last.ret
           /\ BestOf(db', last.ch) = BestOf(db, last.ch)
           /\ (last.o.persist => LatestOf(db', last.ch) = LatestOf(db, last.ch)))]_vars

\* Two persisted runs on chapter 1 ranked the same two tied uploads.
C5_Witness ==
    /\ last.op = "decide"
    /\ last.ch = 1
    /\ Len(last.ret.ranked) = 2
    /\ Len(db.runs) = 2
    /\ \A i \in 1..2 : db.runs[i].chapter = 1 /\ db.runs[i].status = "ok"
    /\ db.runs[1].ranking = db.runs[2].ranking

\* C8: decide on a chapter whose current deadline is in the future returns
\* not_due and selects no winner when force is false; with force it goes on
\* to the later gates and the ranking whatever the deadline.
C8_DeadlineGate ==
    [][last'.op = "decide" =>
        LET pol == db.policy[last'.ch] IN
        /\ (pol.exists /\ pol.current_deadline # NoDeadline /\ now < pol.current_deadline
                /\ ~last'.o.force)
           => (/\ last'.ret.status = "not_due"
               /\ last'.ret.selected = NoUpload
               /\ db'.is_best = db.is_best)
        /\ last'.o.force => last'.ret.status # "not_due"]_vars

\* An unforced call before the deadline came back not_due.
C8_Witness ==
    /\ last.op = "decide"
    /\ ~last.o.force
    /\ db.policy[last.ch].exists
    /\ now < db.policy[last.ch].current_deadline
    /\ last.ret.status = "not_due"

\* A forced call before the deadline selected a winner.
C8_WitnessForce ==
    /\ last.op = "decide"
    /\ last.o.force
    /\ db.policy[last.ch].exists
    /\ now < db.policy[last.ch].current_deadline
    /\ last.ret.status = "ok"

\* C9: under "respect", a decide run that is past the deadline gate returns
\* not_ready and selects no winner whenever the candidates (after the
\* only-evaluated filter) are fewer than the policy's min_contributions;
\* under "ignore" the count never stops a run.
C9_MinContributions ==
    [][last'.op = "decide" =>
        LET pol == db.policy[last'.ch]
            o   == last'.o
        IN
        /\ (/\ pol.exists
            /\ o.min_contributions_policy = "respect"
            /\ CandidateCount(db, last'.ch, o) < pol.min_contributions
            /\ (o.force \/ ~is_open(pol, now)))
           => (/\ last'.ret.status = "not_ready"
               /\ last'.ret.selected = NoUpload
               /\ db'.is_best = db.is_best)
        /\ o.min_contributions_policy = "ignore" => last'.ret.status # "not_ready"]_vars

\* A call under "respect" with one candidate where two are asked for came
\* back not_ready.
C9_Witness ==
    /\ last.op = "decide"
    /\ last.o.min_contributions_policy = "respect"
    /\ db.policy[last.ch].exists
    /\ CandidateCount(db, last.ch, last.o) = 1
    /\ db.policy[last.ch].min_contributions = 2
    /\ last.ret.status = "not_ready"

\* C9 as the specification words it, without the deadline gate: under
\* "respect" every run with too few candidates returns not_ready.
C9_AsStated ==
    [][last'.op = "decide" =>
        LET pol == db.policy[last'.ch]
            o   == last'.o
        IN
        /\ (/\ pol.exists
            /\ o.min_contributions_policy = "respect"
            /\ CandidateCount(db, last'.ch, o) < pol.min_contributions)
           => (/\ last'.ret.status = "not_ready"
               /\ last'.ret.selected = NoUpload
               /\ db'.is_best = db.is_best)
        /\ o.min_contributions_policy = "ignore" => last'.ret.status # "not_ready"]_vars

\* C10: a dry run (persist = false) writes nothing: no DecisionRun row, no
\* change of any is_best flag, no change of any release flag.
C10_DryRunWritesNothing ==
    [][(last'.op = "decide" /\ ~last'.o.persist)
       => (/\ db'.runs = db.runs
           /\ db'.is_best = db.is_best
           /\ db'.released = db.released)]_vars

-----------------------------------------------------------------------------
\* Release-gate specification: a course of GateChapters chapters whose
\* uploads are all evaluated and scored. Chapters get their winner from
\* decide_for_chapter, called with or without auto_release and without
\* persisting (the release gate does not read the DecisionRun table); the
\* first upload of chapter 1 may have been released by hand
\* (mcp_server.db_release_content); the release gate is run at any time.
\* Handlers run one at a time.

\* The course's ReleasePolicy row: none, or one of these.
ReleasePolicies ==
    {EmptyDb.release_policy,
     [exists |-> TRUE, threshold_percentage |-> 50, auto_release_enabled |-> TRUE],
     [exists |-> TRUE, threshold_percentage |-> 80, auto_release_enabled |-> FALSE]}

GateDb(rp, by_hand) ==
    LET d == [Layout(GateChapters) EXCEPT
                !.scores = [u \in DOMAIN Layout(GateChapters).chapterOf |-> SeedHigh],
                !.release_policy = rp]
    IN  IF by_hand THEN db_release_content(d, 1, TRUE) ELSE d

GateInit ==
    /\ now = 0
    /\ procs = <<>>
    /\ last = NoCall
    /\ cfg = DefaultConfig @@
             [flags |-> [only_evaluated_uploads |-> TRUE,
                         min_contributions_policy |-> "respect",
                         auto_release |-> FALSE]]
    /\ \E rp \in ReleasePolicies, by_hand \in BOOLEAN : db = GateDb(rp, by_hand)

\* decide_for_chapter(chapter_id, persist=False, auto_release=auto_release)
GateDecide(ch, auto_release) ==
    DecideWith(ch, [Options(cfg.flags, FALSE, FALSE) EXCEPT !.auto_release = auto_release])

GateNext ==
    \/ \E ch \in ChapterSet(db), auto_release \in BOOLEAN : GateDecide(ch, auto_release)
    \/ ReleaseGate

SpecGate == GateInit /\ [][GateNext]_vars

\* which chapters have a winner, in chapter order
CompleteFlags(d) == [i \in 1..Len(d.chapters) |-> _chapter_is_complete(d, d.chapters[i])]

\* the required chapter count of the course
RequiredOf(d) ==
    _required_chapters(Len(d.chapters),
        IF d.release_policy.exists THEN d.release_policy.threshold_percentage
        ELSE DEFAULT_THRESHOLD_PERCENT)

\* the gate is not switched off for the course
GateEnabled(d) == ~(d.release_policy.exists /\ ~d.release_policy.auto_release_enabled)

ReleasedSet(d) == {u \in Uploads(d) : d.released[u] = "yes"}

\* the winners of the first n chapters
PrefixWinners(d, n) == UNION {BestOf(d, d.chapters[i]) : i \in 1..n}

\* C2: after a release-gate run on a course whose leading run of chapters
\* with a winner reaches the required count, the released uploads are exactly
\* the winners of the chapters of that leading run; every other upload of the
\* course, the winner of a chapter behind the first gap included, is not
\* released.
C2_ReleasePrefix ==
    (/\ last.op = "process_course"
     /\ GateEnabled(db)
     /\ PrefixLen(CompleteFlags(db)) >= RequiredOf(db))
    => (/\ last.ret.status = "processed"
        /\ ReleasedSet(db) = PrefixWinners(db, PrefixLen(CompleteFlags(db))))

\* Winner pattern [true, true, false, true]: chapters 1 and 2 are released;
\* the winner of chapter 4 and the other upload of chapter 1, both released
\* before the run, are revoked.
C2_Witness ==
    /\ last.op = "process_course"
    /\ GateEnabled(db)
    /\ CompleteFlags(db) = <<TRUE, TRUE, FALSE, TRUE>>
    /\ RequiredOf(db) = 2
    /\ db.released[1] = "no"
    /\ ReleasedSet(db) = BestOf(db, 1) \cup BestOf(db, 2)
    /\ \E u \in BestOf(db, 4) : db.released[u] = "no"

\* C3: when the leading run of chapters with a winner is shorter than the
\* required count, the release gate reports the course as not meeting the
\* threshold and leaves no upload of the course released.
C3_PendingBelowThreshold ==
    (/\ last.op = "process_course"
     /\ GateEnabled(db)
     /\ PrefixLen(CompleteFlags(db)) < RequiredOf(db))
    => (/\ last.ret.status = "skipped_threshold"
        /\ ReleasedSet(db) = {})

-----------------------------------------------------------------------------
\* Interleaving specification: two callers run
\* decide_for_chapter(chapter_id, force=True) on the same chapter, as the
\* post_save receiver of ContentScore does (models.py, signals.py), outside
\* any transaction: every query of the call is a step of its own, and the
\* steps of the two calls interleave. Meanwhile the evaluation of the
\* chapter's second upload finishes.

Callers == {1, 2}

Idle == [pc |-> "idle", ch |-> 0, status |-> "none", selected |-> NoUpload, ranking |-> <<>>]

\* the calls that have started and not yet created their DecisionRun
Pending == {p \in Callers : procs[p].pc \in {"unset", "create"}}

\* One chapter with two scored uploads, the better one not yet evaluated.
ConcDb ==
    [Layout(1) EXCEPT
        !.scores = [u \in DOMAIN Layout(1).chapterOf |-> IF u = 1 THEN SeedLow ELSE SeedHigh],
        !.evaluated[2] = FALSE]

ConcInit ==
    /\ now = 0
    /\ cfg = DefaultConfig @@
             [flags |-> [only_evaluated_uploads |-> TRUE,
                         min_contributions_policy |-> "respect",
                         auto_release |-> FALSE]]
    /\ db = ConcDb
    /\ procs = [p \in Callers |-> Idle]
    /\ last = NoCall

\* decide_for_chapter up to the choice of the winner: the policy, the uploads
\* query and the ranking (decision_maker.py:153-210).
ConcBegin(p, ch) ==
    /\ procs[p].pc = "idle"
    /\ Len(db.runs) + Cardinality(Pending) < MaxRuns
    /\ LET o == Options(cfg.flags, TRUE, TRUE)
       IN  \E order \in LoadOrders(db, ch, o.only_evaluated_uploads) :
             LET ranked == rank_uploads(UploadRows(db, order), cfg)
                 status == IF DeadlineGate(db, now, ch, o) THEN "not_due"
                           ELSE IF MinContributionsGate(db, ch, o, order) THEN "not_ready"
                           ELSE IF ranked = <<>> THEN "no_candidates"
                           ELSE "ok"
             IN  procs' = [procs EXCEPT ![p] =
                     [pc |-> "unset", ch |-> ch, status |-> status,
                      selected |-> IF status = "ok" THEN ranked[1].upload_id ELSE NoUpload,
                      ranking |-> IF status = "ok" THEN Leaderboard(ranked, o.top_k_audit)
                                  ELSE <<>>]]
    /\ last' = [op |-> "begin", p |-> p]
    /\ UNCHANGED <<db, now, cfg>>

\* _create_decision_run, first statement (decision_maker.py:379)
ConcUnsetLatest(p) ==
    /\ procs[p].pc = "unset"
    /\ db' = [db EXCEPT !.runs = UnsetLatest(@, procs[p].ch)]
    /\ procs' = [procs EXCEPT ![p].pc = "create"]
    /\ last' = [op |-> "unset_latest", p |-> p]
    /\ UNCHANGED <<now, cfg>>

\* _create_decision_run, second statement (decision_maker.py:408-419), with
\* the release gate its post_save receiver runs.
ConcCreateRun(p) ==
    /\ procs[p].pc = "create"
    /\ \E pick \in BestPicks(db) :
         db' = InsertRun(db, procs[p].ch, procs[p].status, procs[p].selected,
                         procs[p].ranking, pick)
    /\ procs' = [procs EXCEPT ![p] = IF procs[p].status = "ok"
                                     THEN [@ EXCEPT !.pc = "clear"] ELSE Idle]
    /\ last' = [op |-> "create_run", p |-> p]
    /\ UNCHANGED <<now, cfg>>

\* _mark_best_upload, first statement (decision_maker.py:429)
ConcClearBest(p) ==
    /\ procs[p].pc = "clear"
    /\ db' = ClearBest(db, procs[p].ch)
    /\ procs' = [procs EXCEPT ![p].pc = "set"]
    /\ last' = [op |-> "clear_best", p |-> p]
    /\ UNCHANGED <<now, cfg>>

\* _mark_best_upload, second statement (decision_maker.py:430); the call
\* returns (auto_release is off).
ConcSetBest(p) ==
    /\ procs[p].pc = "set"
    /\ db' = SetBest(db, procs[p].selected)
    /\ procs' = [procs EXCEPT ![p] = Idle]
    /\ last' = [op |-> "set_best", p |-> p]
    /\ UNCHANGED <<now, cfg>>

ConcNext ==
    \/ \E p \in Callers, ch \in ChapterSet(db) : ConcBegin(p, ch)
    \/ \E p \in Callers : ConcUnsetLatest(p)
    \/ \E p \in Callers : ConcCreateRun(p)
    \/ \E p \in Callers : ConcClearBest(p)
    \/ \E p \in Callers : ConcSetBest(p)
    \/ \E upload_id \in Uploads(db) : MarkEvaluated(upload_id)

SpecConc == ConcInit /\ [][ConcNext]_vars

\* C1: once every decide run on a chapter has returned, runs whose steps
\* interleaved included, at most one ContentScore of the chapter has
\* is_best = true.
C1_OneWinner ==
    (\A p \in Callers : procs[p].pc = "idle")
    => \A ch \in ChapterSet(db) : Cardinality(BestOf(db, ch)) <= 1

-----------------------------------------------------------------------------
\* Blocked runs and auto release, one call at a time (specification Spec).

BlockedStatuses == {"not_due", "not_ready", "no_candidates"}

\* C11: a decide call that ends in not_due, not_ready or no_candidates leaves
\* every is_best flag and every release flag as it was; with persist it
\* writes one DecisionRun row of that status without a selected upload, and
\* without persist it writes nothing.
C11_BlockedRunFrame ==
    [][(last'.op = "decide" /\ last'.ret.status \in BlockedStatuses)
       => (/\ db'.is_best = db.is_best
           /\ ReleasedSet(db') = ReleasedSet(db)
           /\ last'.o.persist =>
                db'.runs = Append(UnsetLatest(db.runs, last'.ch),
                                  [chapter |-> last'.ch, selected_upload |-> NoUpload,
                                   status |-> last'.ret.status, ranking |-> <<>>,
                                   is_latest |-> TRUE])
           /\ ~last'.o.persist => db' = db)]_vars

\* C12: after a decide run with auto_release that selects winner W, W is
\* released and no other upload of W's chapter is.
C12_AutoRelease ==
    (/\ last.op = "decide"
     /\ last.o.auto_release
     /\ last.ret.status = "ok")
    => (/\ db.released[last.ret.selected] = "yes"
        /\ \A u \in UploadsOf(db, last.ch) \ {last.ret.selected} : db.released[u] # "yes")

\* The run replaced a winner that had been released: the old one is revoked.
C12_Witness ==
    /\ last.op = "decide"
    /\ last.o.auto_release
    /\ last.ret.status = "ok"
    /\ last.ret.selected = 2
    /\ db.released[2] = "yes"
    /\ db.released[1] = "no"

-----------------------------------------------------------------------------
\* Required-chapters specification: _required_chapters applied to a course
\* size and a threshold percentage.

\* the largest course size tried
MaxTotal == 6

ThresholdVals == {0, 1, 10, 25, 33, 50, 67, 80, 99, 100}

RequiredInit ==
    /\ db = EmptyDb
    /\ now = 0
    /\ cfg = DefaultConfig
    /\ procs = <<>>
    /\ \E total \in 0..MaxTotal, threshold \in ThresholdVals :
         last = [op |-> "input", total_chapters |-> total, threshold_percentage |-> threshold]

RequiredChapters ==
    /\ last.op = "input"
    /\ last' = [op |-> "required",
                total_chapters |-> last.total_chapters,
                threshold_percentage |-> last.threshold_percentage,
                required |-> _required_chapters(last.total_chapters, last.threshold_percentage)]
    /\ UNCHANGED <<db, now, cfg, procs>>

RequiredNext == RequiredChapters

SpecRequired == RequiredInit /\ [][RequiredNext]_vars

\* k is the floor of x / 100
IsFloorOfPercent(k, x) == 100 * k <= x /\ x < 100 * (k + 1)

\* C13: the required chapter count is max(1, floor(threshold * total / 100))
\* when total > 0 and threshold > 0, and 0 otherwise; (6, 80) gives 4,
\* (1, 50) gives 1 and (5, 0) gives 0.
C13_RequiredChapters ==
    last.op = "required" =>
        LET n == last.total_chapters
            t == last.threshold_percentage
            r == last.required
        IN  /\ (n > 0 /\ t > 0) =>
                \/ r >= 1 /\ IsFloorOfPercent(r, t * n)
                \/ r = 1 /\ IsFloorOfPercent(0, t * n)
            /\ ~(n > 0 /\ t > 0) => r = 0
            /\ (n = 6 /\ t = 80) => r = 4
            /\ (n = 1 /\ t = 50) => r = 1
            /\ (n = 5 /\ t = 0) => r = 0

\* six chapters at 80 percent: 4.8 is rounded down to 4
C13_Witness ==
    /\ last.op = "required"
    /\ last.total_chapters = 6
    /\ last.threshold_percentage = 80
    /\ last.required = 4

-----------------------------------------------------------------------------
\* Repeated release-gate runs (specification SpecGate).

\* C14: a release-gate run that directly follows another one, with no change
\* of winners or release policy in between, leaves the release state of every
\* upload of the course as the first run left it.
C14_GateIdempotent ==
    [][(last.op = "process_course" /\ last'.op = "process_course")
       => db'.released = db.released]_vars

\* A second run in a row on a course where the first one released chapters 1
\* and 2 and revoked the winner of chapter 4.
C14_Witness ==
    /\ last.op = "process_course"
    /\ last.again
    /\ last.ret.status = "processed"
    /\ last.ret.prefix_len = 2
    /\ ReleasedSet(db) = BestOf(db, 1) \cup BestOf(db, 2)
    /\ \E u \in BestOf(db, 4) : db.released[u] = "no"

-----------------------------------------------------------------------------
\* The scoring agents: langgraph_agents/agents/*.py. Scores are kept in
\* hundredths (0..1000 for 0.00..10.00), the precision of round(x, 2).

Min(a, b) == IF a < b THEN a ELSE b

Max(a, b) == IF a > b THEN a ELSE b

\* What the AI-judgment service does on one call: it raises, it answers text
\* that holds no JSON object, or it answers JSON with numbers of its own
\* choosing, in or out of the range it was asked for.
AiKinds == {"raise", "garbage", "fair", "negative", "high"}

\* the numbers of a JSON answer: the main score and the three sub-scores
AiNumbers(kind) ==
    IF kind = "fair" THEN [main |-> 8, s1 |-> 4, s2 |-> 4, s3 |-> 4]
    ELSE IF kind = "negative" THEN [main |-> 0 - 10, s1 |-> 0 - 5, s2 |-> 0 - 5, s3 |-> 0 - 5]
    ELSE [main |-> 100, s1 |-> 50, s2 |-> 50, s3 |-> 50]

\* the fixed values used when no JSON object could be extracted
AiDefaults == [main |-> 5, s1 |-> 2, s2 |-> 2, s3 |-> 2]

\* analyze_clarity_with_gemini, analyze_coherence_with_gemini,
\* analyze_completeness_with_gemini_sync, analyze_accuracy_with_gemini_sync:
\* llm.invoke is called outside any try block, so what it raises leaves the
\* function; an answer without JSON gives the defaults.
analyze_with_gemini(kind) ==
    IF kind = "raise" THEN [raised |-> TRUE, ai |-> AiDefaults]
    ELSE IF kind = "garbage" THEN [raised |-> FALSE, ai |-> AiDefaults]
    ELSE [raised |-> FALSE, ai |-> AiNumbers(kind)]

\* py_weight and ai_weight of the "undergrad" level, in hundredths
BlendWeights ==
    [clarity      |-> [py_weight |-> 30, ai_weight |-> 70],
     coherence    |-> [py_weight |-> 30, ai_weight |-> 70],
     completeness |-> [py_weight |-> 30, ai_weight |-> 70],
     accuracy     |-> [py_weight |-> 25, ai_weight |-> 75]]

\* final = py_weight * py_score
\*         + ai_weight * (0.4 * main + 0.2 * (2*s1) + 0.2 * (2*s2) + 0.2 * (2*s3)),
\* in hundredths
Blend(field, py_score, ai) ==
    (BlendWeights[field].py_weight * py_score * 10
       + BlendWeights[field].ai_weight * 4 * (ai.main + ai.s1 + ai.s2 + ai.s3)) \div 10

\* combine_clarity, combine_coherence: round(min(10, final), 2);
\* combine_completeness, combine_accuracy: round(min(10.0, max(0.0, final)), 2)
combine(field, py_score, ai) ==
    IF field \in {"clarity", "coherence"}
    THEN Min(1000, Blend(field, py_score, ai))
    ELSE Min(1000, Max(0, Blend(field, py_score, ai)))

\* analyze_engagement_with_gemini: llm.invoke outside the try block; an
\* answer that is not JSON gives zero counts.
analyze_engagement_with_gemini(kind) ==
    IF kind = "raise" THEN [raised |-> TRUE, counts |-> [case_studies |-> 0, assessments |-> 0, scenario_cues |-> 0]]
    ELSE IF kind = "garbage"
    THEN [raised |-> FALSE, counts |-> [case_studies |-> 0, assessments |-> 0, scenario_cues |-> 0]]
    ELSE IF kind = "fair"
    THEN [raised |-> FALSE, counts |-> [case_studies |-> 1, assessments |-> 1, scenario_cues |-> 1]]
    ELSE IF kind = "negative"
    THEN [raised |-> FALSE, counts |-> [case_studies |-> 0 - 1, assessments |-> 0 - 1, scenario_cues |-> 0 - 1]]
    ELSE [raised |-> FALSE, counts |-> [case_studies |-> 100, assessments |-> 100, scenario_cues |-> 100]]

\* evaluate_engagement: min(10, round(2*case_studies + 1.5*scenario_cues
\* + 1.5*assessments + (5 if has_assessment else 0), 2)), in hundredths
engagement_score(counts, has_assessment) ==
    Min(1000, 200 * counts.case_studies + 150 * counts.scenario_cues
              + 150 * counts.assessments + (IF has_assessment THEN 500 ELSE 0))

\* db_save_scores_generic: value_f = max(0.0, min(10.0, value_f))
Clamp(value) == Max(0, Min(1000, value))

-----------------------------------------------------------------------------
\* Saving scores, and the triggers that follow.

\* decide_for_chapter(chapter_id=..., force=True): the call of the post_save
\* receiver of ContentScore, every other parameter at its default.
SignalOptions ==
    [force |-> TRUE, persist |-> TRUE, top_k_audit |-> 10,
     only_evaluated_uploads |-> TRUE, min_contributions_policy |-> "respect",
     auto_release |-> FALSE]

\* ContentScore.objects.get_or_create(upload=upload): when the row is created
\* its post_save receiver auto_run_decision_maker runs the decision for the
\* upload's chapter before get_or_create returns.
ContentScoreGetOrCreate(d, t, c, upload_id, order, pick) ==
    IF d.has_score[upload_id] THEN d
    ELSE decide_for_chapter([d EXCEPT !.has_score[upload_id] = TRUE], t, c,
                            d.chapterOf[upload_id], SignalOptions, order, pick).db

\* mcp_server.db_save_scores_generic with one score
db_save_scores_generic(d, t, c, upload_id, field, value, order, pick) ==
    IF upload_id \notin Uploads(d) THEN d
    ELSE [ContentScoreGetOrCreate(d, t, c, upload_id, order, pick)
            EXCEPT !.scores[upload_id][field] = Clamp(value)]

\* mcp_server.db_save_scores with one key: completeness, clarity and accuracy
\* are stored as given; the engagement key sets an attribute that is no
\* column of the model, and any other key is ignored.
db_save_scores(d, t, c, upload_id, field, value, order, pick) ==
    IF upload_id \notin Uploads(d) THEN d
    ELSE [ContentScoreGetOrCreate(d, t, c, upload_id, order, pick)
            EXCEPT !.scores[upload_id][field] =
                     IF field \in {"completeness", "clarity", "accuracy"} THEN value ELSE @]

\* engagement._save_score: score_obj.engagement = engagement_score; save()
_save_score(d, upload_id, engagement_score_value) ==
    [d EXCEPT !.scores[upload_id]["engagement"] = engagement_score_value]

\* the options trigger_decision_if_due passes
TriggerOptions == [SignalOptions EXCEPT !.top_k_audit = 5]

\* A plausible slip: a chapter that has its decision is decided again.
AlreadyDecidedNever(d, ch) == FALSE

\* trigger_decision_if_due: latest and latest.status == "ok" and
\* latest.selected_upload_id
AlreadyDecided(d, ch) ==
    \E i \in 1..Len(d.runs) :
        /\ d.runs[i].chapter = ch
        /\ d.runs[i].is_latest
        /\ d.runs[i].status = "ok"
        /\ d.runs[i].selected_upload # NoUpload

\* the early returns of trigger_decision_if_due
TriggerSkips(d, t, ch) ==
    LET policy == d.policy[ch]
        evaluated_count == Cardinality({u \in UploadsOf(d, ch) : d.evaluated[u]})
    IN  \/ ~policy.exists
        \/ is_open(policy, t)
        \/ evaluated_count < policy.min_contributions
        \/ AlreadyDecided(d, ch)

\* auto_decision.trigger_decision_if_due: the new database
trigger_decision_if_due(d, t, c, ch, order, pick) ==
    IF TriggerSkips(d, t, ch) THEN d
    ELSE decide_for_chapter(d, t, c, ch, TriggerOptions, order, pick).db

\* what trigger_decision_if_due hands back: decide_for_chapter returns the
\* run only when it selected a winner, and None on every blocked path
DecideOutcome(r) == [db |-> r.db, res |-> r.ret.status = "ok"]

\* auto_decision.trigger_decision_if_due: the new database and whether the
\* value returned is not None
TriggerRun(d, t, c, ch, order, pick) ==
    IF TriggerSkips(d, t, ch) THEN [db |-> d, res |-> FALSE]
    ELSE DecideOutcome(decide_for_chapter(d, t, c, ch, TriggerOptions, order, pick))

\* every outcome of trigger_decision_if_due on a chapter
TriggerOutcomes(d, t, c, ch) ==
    {TriggerRun(d, t, c, ch, order, pick) :
        order \in LoadOrders(d, ch, TRUE), pick \in BestPicks(d)}

\* ChapterPolicy.objects.filter(current_deadline__isnull=False,
\* current_deadline__lt=now).order_by("current_deadline"): the chapters of the
\* due policies, equal deadlines in any order
DueOrders(d, t) ==
    LET due == {ch \in ChapterSet(d) :
                  /\ d.policy[ch].exists
                  /\ d.policy[ch].current_deadline # NoDeadline
                  /\ d.policy[ch].current_deadline < t}
    IN  {o \in Perms(due) :
            \A i, j \in 1..Len(o) :
                i < j => d.policy[o[i]].current_deadline <= d.policy[o[j]].current_deadline}

\* A plausible slip: every call counts towards max_chapters, whatever it
\* returned.
RECURSIVE SweepLoopCountsAll(_, _, _, _, _, _)
SweepLoopCountsAll(d, t, c, due, ran, max_chapters) ==
    IF due = <<>> THEN {d}
    ELSE UNION {IF ran + 1 >= max_chapters
                THEN {r.db}
                ELSE SweepLoopCountsAll(r.db, t, c, Tail(due), ran + 1, max_chapters) :
                r \in TriggerOutcomes(d, t, c, Head(due))}

\* The loop of trigger_due_decisions over the due policies: ran counts the
\* calls that returned a run, and the loop breaks when it reaches
\* max_chapters. The set of databases the loop can end with.
RECURSIVE SweepLoop(_, _, _, _, _, _)
SweepLoop(d, t, c, due, ran, max_chapters) ==
    IF due = <<>> THEN {d}
    ELSE UNION {IF r.res /\ ran + 1 >= max_chapters
                THEN {r.db}
                ELSE SweepLoop(r.db, t, c, Tail(due), IF r.res THEN ran + 1 ELSE ran, max_chapters) :
                r \in TriggerOutcomes(d, t, c, Head(due))}

\* auto_decision.trigger_due_decisions
trigger_due_decisions(d, t, c, max_chapters) ==
    UNION {SweepLoop(d, t, c, due, 0, max_chapters) : due \in DueOrders(d, t)}

-----------------------------------------------------------------------------
\* Evaluation specification: one run of the background pipeline started by
\* submit_and_evaluate for upload 1 (views/contributor/submit_content.py),
\* from the wait for the extraction to the decision trigger. The chapter
\* holds a second, newer upload, by the same contributor or by another.

max_wait_seconds == 300

interval == 5

\* the python heuristic's score of the text (0..10)
PyScores == {0, 10}

\* the order of the nodes of the evaluation graph (graph/workflow.py)
AgentOrder == <<"clarity", "engagement", "coherence", "completeness", "accuracy">>

\* the node after a node, "mark" after the last
NextNode(agent) ==
    LET i == CHOOSE j \in 1..Len(AgentOrder) : AgentOrder[j] = agent
    IN  IF i = Len(AgentOrder) THEN "mark" ELSE AgentOrder[i + 1]

\* the upload the run was started for
RunUpload == 1

EvalPolicy == [exists |-> TRUE, current_deadline |-> 0, min_contributions |-> 1]

EvalDb(same_contributor, pol) ==
    [Layout(1) EXCEPT
        !.timestamp = <<1, 2>>,
        !.evaluated = <<FALSE, FALSE>>,
        !.has_score = <<FALSE, FALSE>>,
        !.scores = <<AllNull, AllNull>>,
        !.policy = <<pol>>]
    @@ [extraction_status |-> <<FALSE, TRUE>>,     \* ContentCheck.extraction_status
        payload |-> <<"none", "text">>,            \* the extracted text: "none", "empty", "text"
        contributorOf |-> <<1, IF same_contributor THEN 1 ELSE 2>>]

EvalInit ==
    /\ now = 1
    /\ last = NoCall
    /\ \E state_is_merged \in BOOLEAN :
         cfg = DefaultConfig @@ [state_is_merged |-> state_is_merged]
    /\ \E same_contributor \in BOOLEAN, pol \in {NoPolicy, EvalPolicy} :
         db = EvalDb(same_contributor, pol)
    /\ procs = [pc |-> "wait", waited |-> 0, upload_id |-> RunUpload, invoked |-> <<>>]

\* run_extraction_background finishes: the payload is saved, then the flag set
ExtractionDone(upload_id, text) ==
    /\ ~db.extraction_status[upload_id]
    /\ db' = [db EXCEPT !.extraction_status[upload_id] = TRUE,
                        !.payload[upload_id] = text]
    /\ last' = [op |-> "extraction_done"]
    /\ UNCHANGED <<now, cfg, procs>>

\* A plausible slip: when the wait runs out the graph is started all the same.
PollStartsAnyway ==
    /\ procs.pc = "wait"
    /\ procs.waited < max_wait_seconds
    /\ procs' = IF db.extraction_status[RunUpload]
                THEN [procs EXCEPT !.pc = "clarity", !.waited = 0]
                ELSE IF procs.waited + interval < max_wait_seconds
                THEN [procs EXCEPT !.waited = @ + interval]
                ELSE [procs EXCEPT !.pc = "clarity", !.waited = @ + interval]
    /\ last' = [op |-> "poll"]
    /\ UNCHANGED <<db, now, cfg>>

\* One turn of the loop of wait_for_extraction: read the flag; return True
\* when it is set, else sleep and count; the loop ends at max_wait_seconds.
Poll ==
    /\ procs.pc = "wait"
    /\ procs.waited < max_wait_seconds
    /\ procs' = IF db.extraction_status[RunUpload]
                THEN [procs EXCEPT !.pc = "clarity", !.waited = 0]
                ELSE IF procs.waited + interval < max_wait_seconds
                THEN [procs EXCEPT !.waited = @ + interval]
                ELSE [procs EXCEPT !.pc = "timeout", !.waited = @ + interval]
    /\ last' = [op |-> "poll"]
    /\ UNCHANGED <<db, now, cfg>>

\* evaluate_clarity, evaluate_coherence, evaluate_completeness,
\* evaluate_accuracy as a node of the graph: the early returns, the two
\* signals, the blend and the save through db_save_scores_generic.
EvaluateFromState(field) ==
    /\ procs.pc = field
    /\ \E kind \in AiKinds, py_score \in PyScores :
         LET upload_id == procs.upload_id
             started == [procs EXCEPT !.invoked = Append(@, [agent |-> field, upload |-> upload_id])]
             gem == analyze_with_gemini(kind)
         IN  IF upload_id = NoUpload \/ db.payload[upload_id] # "text"
             THEN /\ procs' = [started EXCEPT !.pc = NextNode(field)]
                  /\ db' = db
                  /\ last' = [op |-> "agent", agent |-> field, status |-> "failed"]
             ELSE IF gem.raised
             THEN /\ procs' = [started EXCEPT !.pc = "aborted"]
                  /\ db' = db
                  /\ last' = [op |-> "agent", agent |-> field, status |-> "raised"]
             ELSE /\ procs' = [started EXCEPT !.pc = NextNode(field)]
                  /\ \E order \in LoadOrders(db, db.chapterOf[upload_id], TRUE),
                        pick \in BestPicks(db) :
                       db' = db_save_scores_generic(db, now, cfg, upload_id, field,
                                 combine(field, py_score, gem.ai), order, pick)
                  /\ last' = [op |-> "agent", agent |-> field, status |-> "evaluated"]
    /\ UNCHANGED <<now, cfg>>

\* the newest upload of a contributor in a chapter
LatestUploadOf(d, contributor_id, ch) ==
    LET mine == {u \in UploadsOf(d, ch) : d.contributorOf[u] = contributor_id}
    IN  CHOOSE u \in mine : \A v \in mine : d.timestamp[v] <= d.timestamp[u]

\* the end of evaluate_engagement: the score is stored when the function got
\* as far as computing it
EngagementStore(d, upload_id, status, engagement_score_value) ==
    IF status = "evaluated" THEN _save_score(d, upload_id, engagement_score_value) ELSE d

\* engagement.evaluate_engagement called with a contributor and a chapter:
\* it takes the newest upload of the contributor in the chapter, gets or
\* creates its ContentScore, returns early without content, asks the AI
\* service (an error there leaves the function) and stores the score through
\* _save_score.
evaluate_engagement(d, t, c, contributor_id, ch, kind, has_assessment, order, pick) ==
    LET target == LatestUploadOf(d, contributor_id, ch)
        gem == analyze_engagement_with_gemini(kind)
        status == IF d.payload[target] # "text" THEN "failed"
                  ELSE IF gem.raised THEN "raised" ELSE "evaluated"
    IN  [db |-> EngagementStore(ContentScoreGetOrCreate(d, t, c, target, order, pick), target,
                                status, engagement_score(gem.counts, has_assessment)),
         status |-> status, target |-> target]

\* evaluate_engagement as a node of the graph. The node passes
\* {"state": state} to a tool declared with contributor_id, chapter_id and
\* drive_folders: the tool wrapper may refuse the input (accepted = FALSE).
\* The tool scores the newest upload of the contributor in the chapter and
\* returns a dict without the graph state: the later nodes still see the
\* upload id only if the graph merges what a node returns into its state.
EvaluateEngagement ==
    /\ procs.pc = "engagement"
    /\ \E accepted \in BOOLEAN, kind \in AiKinds, has_assessment \in BOOLEAN :
         IF ~accepted
         THEN /\ procs' = [procs EXCEPT !.pc = "aborted"]
              /\ db' = db
              /\ last' = [op |-> "agent", agent |-> "engagement", status |-> "refused"]
         ELSE \E order \in LoadOrders(db, db.chapterOf[RunUpload], TRUE), pick \in BestPicks(db) :
              \E r \in {evaluate_engagement(db, now, cfg, db.contributorOf[RunUpload],
                                           db.chapterOf[RunUpload], kind, has_assessment, order, pick)} :
              LET started == [procs EXCEPT !.invoked = Append(@, [agent |-> "engagement", upload |-> r.target])]
              IN  /\ procs' = IF r.status = "raised"
                              THEN [started EXCEPT !.pc = "aborted"]
                              ELSE [started EXCEPT !.pc = NextNode("engagement"),
                                                   !.upload_id = IF cfg.state_is_merged THEN @ ELSE NoUpload]
                  /\ db' = r.db
                  /\ last' = [op |-> "agent", agent |-> "engagement", status |-> r.status]
    /\ UNCHANGED <<now, cfg>>

\* UploadCheck.objects.filter(id=upload_id).update(evaluation_status=True),
\* reached when compiled_graph.ainvoke has returned
MarkRunEvaluated ==
    /\ procs.pc = "mark"
    /\ db' = [db EXCEPT !.evaluated[RunUpload] = TRUE]
    /\ procs' = [procs EXCEPT !.pc = "finalize"]
    /\ last' = [op |-> "mark"]
    /\ UNCHANGED <<now, cfg>>

\* finalize_evaluation: ContentScore.objects.get raises when the upload has
\* no ContentScore; the write to the chain succeeds or raises.
FinalizeEvaluation ==
    /\ procs.pc = "finalize"
    /\ \E stored \in BOOLEAN :
         procs' = [procs EXCEPT !.pc = IF db.has_score[RunUpload] /\ stored
                                       THEN "trigger" ELSE "aborted"]
    /\ last' = [op |-> "finalize"]
    /\ UNCHANGED <<db, now, cfg>>

\* the call of trigger_decision_if_due that ends the run
TriggerDecision ==
    /\ procs.pc = "trigger"
    /\ \E order \in LoadOrders(db, db.chapterOf[RunUpload], TRUE), pick \in BestPicks(db) :
         db' = trigger_decision_if_due(db, now, cfg, db.chapterOf[RunUpload], order, pick)
    /\ procs' = [procs EXCEPT !.pc = "done"]
    /\ last' = [op |-> "trigger"]
    /\ UNCHANGED <<now, cfg>>

EvalNext ==
    \/ \E text \in {"text", "empty"} : ExtractionDone(RunUpload, text)
    \/ Poll
    \/ \E field \in {"clarity", "coherence", "completeness", "accuracy"} : EvaluateFromState(field)
    \/ EvaluateEngagement
    \/ MarkRunEvaluated
    \/ FinalizeEvaluation
    \/ TriggerDecision

SpecEval == EvalInit /\ [][EvalNext]_vars

-----------------------------------------------------------------------------
\* The save paths of a ContentScore, each called on its own.

\* the values a caller passes to a save tool, in hundredths
ToolValues == {-100, 1200}

\* A call of the MCP tool db_save_scores_generic.
DbSaveScoresGeneric(upload_id, field, value) ==
    /\ \E order \in LoadOrders(db, db.chapterOf[upload_id], TRUE),
          pick \in BestPicks(db) :
         db' = db_save_scores_generic(db, now, cfg, upload_id, field, value, order, pick)
    /\ last' = [op |-> "db_save_scores_generic"]
    /\ UNCHANGED <<now, cfg, procs>>

\* A call of the MCP tool db_save_scores with one key.
DbSaveScores(upload_id, field, value) ==
    /\ \E order \in LoadOrders(db, db.chapterOf[upload_id], TRUE),
          pick \in BestPicks(db) :
         db' = db_save_scores(db, now, cfg, upload_id, field, value, order, pick)
    /\ last' = [op |-> "db_save_scores"]
    /\ UNCHANGED <<now, cfg, procs>>

\* A call of evaluate_engagement for the contributor and chapter of an upload.
CallEvaluateEngagement(upload_id, kind, has_assessment) ==
    /\ \E order \in LoadOrders(db, db.chapterOf[upload_id], TRUE),
          pick \in BestPicks(db) :
         \E r \in {evaluate_engagement(db, now, cfg, db.contributorOf[upload_id],
                                      db.chapterOf[upload_id], kind, has_assessment, order, pick)} :
             /\ db' = r.db
             /\ last' = [op |-> "evaluate_engagement", status |-> r.status]
    /\ UNCHANGED <<now, cfg, procs>>

SaveNext ==
    \/ \E field \in FieldSet, value \in ToolValues : DbSaveScoresGeneric(RunUpload, field, value)
    \/ \E field \in {"accuracy", "engagement"}, value \in ToolValues : DbSaveScores(RunUpload, field, value)
    \/ \E upload_id \in Uploads(db), kind \in AiKinds, has_assessment \in BOOLEAN :
         CallEvaluateEngagement(upload_id, kind, has_assessment)

SpecSave == EvalInit /\ [][SaveNext]_vars

-----------------------------------------------------------------------------
\* Properties of the evaluation pipeline (specification SpecEval).

\* the run got past the wait for the extraction
GraphStarted == procs.pc \notin {"wait", "timeout"}

\* the run is over
RunOver == procs.pc \in {"timeout", "aborted", "done"}

C16_WaitForExtraction ==
    /\ [](GraphStarted => db.extraction_status[RunUpload])
    /\ [](procs.invoked # <<>> => GraphStarted)
    /\ [](procs.pc = "timeout" =>
            /\ procs.waited = max_wait_seconds
            /\ procs.invoked = <<>>
            /\ ~db.evaluated[RunUpload]
            /\ \A u \in Uploads(db) : ~db.has_score[u]
            /\ db.runs = <<>>)
    /\ [][procs.pc = "timeout" => procs' = procs]_vars

\* The wait ran out after 300 seconds; the extraction finished afterwards and
\* the run did not start.
C16_Witness ==
    /\ procs.pc = "timeout"
    /\ procs.waited = 300
    /\ db.extraction_status[RunUpload]
    /\ procs.invoked = <<>>

\* C17: an agent whose AI-judgment call raises or answers something that
\* cannot be parsed still produces its score, and nothing reaches the
\* orchestrator: no agent step ends with the error raised out of the agent.
C17_FailSoft ==
    last.op = "agent" => last.status # "raised"

\* C18: every non-null dimension stored in a ContentScore lies in [0, 10].
C18_ScoresInRange ==
    \A u \in Uploads(db), f \in FieldSet :
        db.scores[u][f] # NULL => (0 <= db.scores[u][f] /\ db.scores[u][f] <= 1000)

\* C19: a failing agent does not stop the run: once the graph has started
\* and the run has left it, each of the five agents has been invoked.
C19_AllAgentsInvoked ==
    (GraphStarted /\ procs.pc \notin {"clarity", "engagement", "coherence", "completeness", "accuracy"})
    => {procs.invoked[i].agent : i \in 1..Len(procs.invoked)} = FieldSet

-----------------------------------------------------------------------------
\* The release state after decide runs (specification Spec).

\* the chapters with a released upload
ReleasedChapters(d) == {d.chapterOf[u] : u \in ReleasedSet(d)}

\* C21: after a persisted decide run that selects a winner, the released
\* uploads are the ones the release gate computes from the flags as the run
\* left them: the gate the run triggered saw the new winner.
C21_GateSeesNewWinner ==
    (/\ last.op = "decide"
     /\ last.ret.status = "ok"
     /\ last.o.persist
     /\ ~last.o.auto_release)
    => \A pick \in BestPicks(db) : ReleasedSet(process_course(db, pick).db) = ReleasedSet(db)

\* C22: between calls, the chapters with a released upload are the first
\* chapters of the course: no chapter is released while an earlier one is not.
C22_ReleasedIsPrefix ==
    \A i \in 1..Len(db.chapters), j \in 1..Len(db.chapters) :
        (i < j /\ db.chapters[j] \in ReleasedChapters(db)) => db.chapters[i] \in ReleasedChapters(db)

\* C27: after a persisted decide run that selects a winner, with the release
\* gate it triggered done, every released upload is the winner of its
\* chapter: an upload that lost the flag is no longer released.
C27_ReleasedAreWinners ==
    (/\ last.op = "decide"
     /\ last.ret.status = "ok"
     /\ last.o.persist)
    => \A u \in ReleasedSet(db) : db.is_best[u]

-----------------------------------------------------------------------------
\* What a scoring agent writes (specification SpecEval).

\* C23: a step of a scoring agent changes at most the agent's own dimension
\* of the ContentScore of the run's upload: no is_best flag, no DecisionRun,
\* no release flag and nothing of another upload changes.
C23_AgentWritesOneField ==
    [][(last'.op = "agent" /\ last'.agent # "engagement")
       => (/\ db'.is_best = db.is_best
           /\ db'.runs = db.runs
           /\ db'.released = db.released
           /\ db'.evaluated = db.evaluated
           /\ \A u \in Uploads(db), f \in FieldSet :
                db'.scores[u][f] # db.scores[u][f] => (u = RunUpload /\ f = last'.agent))]_vars

-----------------------------------------------------------------------------
\* The latest DecisionRun under interleaved decide runs (specification
\* SpecConc).

\* C24: in no state reached by two interleaved decide runs on a chapter do
\* two DecisionRun rows of the chapter have is_latest = true.
C24_OneLatestInterleaved ==
    \A ch \in ChapterSet(db) :
        Cardinality({i \in 1..Len(db.runs) : db.runs[i].chapter = ch /\ db.runs[i].is_latest}) <= 1

-----------------------------------------------------------------------------
\* The decision trigger of the ContentScore table (specification SpecSave).

\* all five dimensions of the upload's ContentScore are stored
ScoreComplete(d, u) == d.has_score[u] /\ \A f \in FieldSet : d.scores[u][f] # NULL

\* C25: a save after which an upload's ContentScore is complete for the first
\* time starts a decision for the chapter (a DecisionRun row is created), and
\* a save starts a decision only then.
C25_TriggerOnComplete ==
    [][/\ \A u \in Uploads(db) :
            (~ScoreComplete(db, u) /\ ScoreComplete(db', u)) => Len(db'.runs) > Len(db.runs)
       /\ Len(db'.runs) > Len(db.runs)
            => \E u \in Uploads(db) : ~ScoreComplete(db, u) /\ ScoreComplete(db', u)]_vars

-----------------------------------------------------------------------------
\* Trigger specification: the automatic triggers of the decision on a course
\* of AutoChapters chapters, one call at a time: the first save of an
\* upload's score, the call that ends an evaluation run, and the sweep of
\* the request middleware.

\* DecisionAutoRunMiddleware: trigger_due_decisions(max_chapters=2)
SweepMaxChapters == 2

\* one chapter more than a sweep decides
AutoChapters == SweepMaxChapters + 1

\* the most rows the DecisionRun table holds in this specification
AutoRunCap == 2 * AutoChapters

\* the clock: deadlines are 0 or 1
AutoTimes == 0..2

\* Chapter 1 asks for one or two contributions and holds uploads 1 and 2; upload 1
\* is evaluated and scored, upload 2 is newer with better scores, evaluated
\* or not, with or without its ContentScore. The other chapters hold one
\* evaluated upload each, of which the upload of chapter 2 may have a
\* ContentScore without any score.
AutoDb(deadline, min1, evaluated2, scored2, scored3) ==
    LET base == Layout(AutoChapters)
    IN  [base EXCEPT
            !.timestamp[2] = 2,
            !.evaluated[2] = evaluated2,
            !.has_score[2] = scored2,
            !.scores = [u \in DOMAIN base.chapterOf |->
                          IF u = 1 THEN SeedLow
                          ELSE IF u = 2 THEN (IF scored2 THEN SeedHigh ELSE AllNull)
                          ELSE IF u = 3 THEN (IF scored3 THEN SeedHigh ELSE AllNull)
                          ELSE SeedHigh],
            !.policy = [ch \in 1..AutoChapters |->
                          [exists |-> TRUE, current_deadline |-> deadline[ch],
                           min_contributions |-> IF ch = 1 THEN min1 ELSE 1]]]

\* the deadlines of the chapters: all the same, or chapter 1 due before or
\* after the others
AutoDeadlines ==
    {[ch \in 1..AutoChapters |-> 0],
     [ch \in 1..AutoChapters |-> IF ch = 1 THEN 1 ELSE 0],
     [ch \in 1..AutoChapters |-> IF ch = 1 THEN 0 ELSE 1]}

\* the course at time 0; p is the bookkeeping of the specification
AutoStart(p) ==
    /\ now = 0
    /\ procs = p
    /\ last = NoCall
    /\ cfg = DefaultConfig
    /\ \E deadline \in AutoDeadlines, min1 \in {1, 2},
          evaluated2 \in BOOLEAN, scored2 \in BOOLEAN, scored3 \in BOOLEAN :
         db = AutoDb(deadline, min1, evaluated2, scored2, scored3)

AutoInit == AutoStart(<<>>)

\* The first score of an upload is saved: the ContentScore is created and
\* its post_save receiver runs the decision.
ScoreSaved(upload_id) ==
    /\ ~db.has_score[upload_id]
    /\ Len(db.runs) < AutoChapters
    /\ \E order \in LoadOrders(db, db.chapterOf[upload_id], TRUE), pick \in BestPicks(db) :
         db' = db_save_scores_generic(db, now, cfg, upload_id, "accuracy", 900, order, pick)
    /\ last' = [op |-> "score_saved", ch |-> db.chapterOf[upload_id]]
    /\ UNCHANGED <<now, cfg, procs>>

\* The call of trigger_decision_if_due at the end of an evaluation run.
PostEvaluation(ch) ==
    /\ Len(db.runs) < AutoChapters
    /\ \E r \in TriggerOutcomes(db, now, cfg, ch) : db' = r.db
    /\ last' = [op |-> "trigger", ch |-> ch]
    /\ UNCHANGED <<now, cfg, procs>>

\* AdminAgentService.auto_release_recent on the one course: process_course
\* when a DecisionRun of the course was created in the last hour. The rows
\* carry no time: a row created by this request is recent, an older one may
\* or may not be.
auto_release_recent(d, created_now) ==
    IF d.runs = <<>> THEN {d}
    ELSE {process_course(d, pick).db : pick \in BestPicks(d)}
         \cup (IF created_now THEN {} ELSE {d})

\* DecisionAutoRunMiddleware.process_request past its throttle: one sweep;
\* p is the bookkeeping after it.
SweepStep(p) ==
    /\ Len(db.runs) + AutoChapters <= AutoRunCap
    /\ \E swept \in trigger_due_decisions(db, now, cfg, SweepMaxChapters) :
         \E released \in auto_release_recent(swept, Len(swept.runs) > Len(db.runs)) :
           db' = released
    /\ last' = [op |-> "sweep"]
    /\ procs' = p
    /\ UNCHANGED <<now, cfg>>

Sweep == SweepStep(procs)

\* Time passes.
AutoTick ==
    /\ now + 1 \in AutoTimes
    /\ now' = now + 1
    /\ last' = [op |-> "tick"]
    /\ UNCHANGED <<db, cfg, procs>>

AutoNext ==
    \/ \E upload_id \in Uploads(db) : ScoreSaved(upload_id)
    \/ \E ch \in ChapterSet(db) : PostEvaluation(ch)
    \/ Sweep
    \/ AutoTick
    \/ \E upload_id \in Uploads(db) : MarkEvaluated(upload_id)

SpecAuto == AutoInit /\ [][AutoNext]_vars

\* the ok rows of a chapter in the DecisionRun table
OkRunsOf(d, ch) == {i \in RunsOf(d, ch) : d.runs[i].status = "ok"}

\* C26: a step of an automatic trigger (the score-save trigger, the trigger
\* after an evaluation, the sweep) neither creates an ok DecisionRun nor
\* changes an is_best flag in a chapter whose policy's deadline has not
\* passed.
C26_NoAutoDecisionBeforeDeadline ==
    [][last'.op \in {"score_saved", "trigger", "sweep"}
       => \A ch \in ChapterSet(db) :
            (db.policy[ch].exists /\ is_open(db.policy[ch], now))
            => (/\ OkRunsOf(db', ch) = OkRunsOf(db, ch)
                /\ \A u \in UploadsOf(db, ch) : db'.is_best[u] = db.is_best[u])]_vars

\* C29: trigger_decision_if_due on a chapter whose latest DecisionRun is ok
\* with a selected upload changes nothing: no DecisionRun is created and no
\* is_best or release flag changes.
C29_TriggerSkipsDecided ==
    [][(/\ last'.op = "trigger"
        /\ \E i \in OkRunsOf(db, last'.ch) :
             db.runs[i].is_latest /\ db.runs[i].selected_upload # NoUpload)
       => db' = db]_vars

\* The trigger was called on chapter 1, due and decided for upload 1, after
\* upload 2, which ranks first, was evaluated; upload 1 is still the winner.
C29_Witness ==
    /\ last.op = "trigger"
    /\ last.ch = 1
    /\ ~is_open(db.policy[1], now)
    /\ \E i \in OkRunsOf(db, 1) : db.runs[i].is_latest /\ db.runs[i].selected_upload = 1
    /\ db.is_best[1]
    /\ db.evaluated[2]
    /\ db.has_score[2]
    /\ \A order \in LoadOrders(db, 1, TRUE) :
         rank_uploads(UploadRows(db, order), cfg)[1].upload_id = 2

-----------------------------------------------------------------------------
\* Sweep specification: the course of the trigger specification with nothing
\* but the sweep and the clock: no upload and no policy changes. procs counts,
\* for each chapter, the sweeps that started while the chapter was eligible
\* and undecided, and keeps the parity of the number of sweeps.

\* the chapter's policy is due, it has the evaluated uploads the policy asks
\* for, and one of them has a score
Eligible(d, t, ch) ==
    /\ d.policy[ch].exists
    /\ d.policy[ch].current_deadline # NoDeadline
    /\ d.policy[ch].current_deadline < t
    /\ Cardinality({u \in UploadsOf(d, ch) : d.evaluated[u]}) >= d.policy[ch].min_contributions
    /\ \E u \in UploadsOf(d, ch) :
         d.evaluated[u] /\ d.has_score[u] /\ \E f \in FieldSet : d.scores[u][f] # NULL

\* the chapter's latest DecisionRun has status ok
LatestOk(d, ch) == \E i \in OkRunsOf(d, ch) : d.runs[i].is_latest

\* the sweeps after which every eligible chapter is decided: each sweep
\* decides max_chapters of them
SweepsNeeded == (AutoChapters + SweepMaxChapters - 1) \div SweepMaxChapters

SweepInit ==
    AutoStart([parity |-> 0, waited |-> [ch \in 1..AutoChapters |-> 0]])

SweepCounted ==
    SweepStep([parity |-> 1 - procs.parity,
               waited |-> [ch \in 1..AutoChapters |->
                             IF Eligible(db, now, ch) /\ ~LatestOk(db, ch)
                             THEN procs.waited[ch] + 1
                             ELSE procs.waited[ch]]])

SweepNext ==
    \/ SweepCounted
    \/ AutoTick

SpecSweep == SweepInit /\ [][SweepNext]_vars

\* the sweep is invoked again and again
SweepKeepsRunning == ([]<>(procs.parity = 0)) /\ ([]<>(procs.parity = 1))

\* C28: every chapter whose policy is due, with the evaluated uploads its
\* policy asks for and a scored one among them, has a latest DecisionRun of
\* status ok once SweepsNeeded sweeps have started while it was waiting for
\* one; so, when the sweep keeps being invoked, every such chapter eventually
\* has a latest DecisionRun of status ok, also with more chapters due than
\* one sweep decides.
C28_SweepDecidesAll ==
    /\ [](\A ch \in 1..AutoChapters :
            procs.waited[ch] >= SweepsNeeded => LatestOk(db, ch))
    /\ SweepKeepsRunning
         => \A ch \in 1..AutoChapters : Eligible(db, now, ch) ~> LatestOk(db, ch)

\* Three chapters were due at once, more than one sweep decides: the first
\* sweep left one of them waiting, and now every one of them has its decision.
C28_Witness ==
    /\ last.op = "sweep"
    /\ \A ch \in 1..AutoChapters : Eligible(db, now, ch) /\ LatestOk(db, ch)
    /\ \A ch \in 1..AutoChapters : db.policy[ch].current_deadline = 0
    /\ \E ch \in 1..AutoChapters : procs.waited[ch] = SweepsNeeded

-----------------------------------------------------------------------------
\* Composite specification: the two composite strategies of rank_uploads on
\* one upload, for every map of scores and both missing-value policies.

\* every map of the five dimensions to a missing value or a score
AllScoreMaps == [FieldSet -> ScoreVals \cup {NULL}]

CompositeInit ==
    /\ db = EmptyDb
    /\ now = 0
    /\ procs = <<>>
    /\ cfg \in [primary_strategy : {"simple_average"},
                missing_strategy : {"ignore", "zero"},
                weights : {AllOnes}]
    /\ \E scores \in AllScoreMaps :
         last = [op |-> "loaded", scores |-> scores]

\* rank_uploads on the upload under the configured strategy and under
\* weighted_average with the same weights and policy.
Compose ==
    /\ last.op = "loaded"
    /\ \E u \in {[id |-> 1, timestamp |-> 1, has_score |-> TRUE, scores |-> last.scores]} :
         last' = [op |-> "composed", scores |-> last.scores,
                  simple |-> _simple_average(last.scores, cfg.missing_strategy),
                  weighted |-> _weighted_average(last.scores, _resolve_weights(cfg),
                                                 cfg.missing_strategy),
                  ranked_simple |-> rank_uploads(<<u>>, cfg),
                  ranked_weighted |->
                      rank_uploads(<<u>>, [cfg EXCEPT !.primary_strategy = "weighted_average"])]
    /\ UNCHANGED <<db, now, cfg, procs>>

CompositeNext == Compose

SpecComposite == CompositeInit /\ [][CompositeNext]_vars

\* C30: with every weight 1, simple_average and weighted_average give the
\* same composite for every map of scores under both missing-value policies,
\* and rank_uploads keeps or drops the upload alike under both.
C30_SimpleIsUnitWeighted ==
    last.op = "composed"
    => /\ last.simple = last.weighted
       /\ CompEq(last.simple, last.weighted)
       /\ last.ranked_simple = last.ranked_weighted
       /\ (last.ranked_simple = <<>>) <=> (last.weighted = NegInf)

\* An upload with a missing and a present dimension was composed under the
\* policy that counts a missing value as zero, and was kept.
C30_Witness ==
    /\ last.op = "composed"
    /\ cfg.missing_strategy = "zero"
    /\ \E f \in FieldSet : last.scores[f] = NULL
    /\ \E f \in FieldSet : last.scores[f] # NULL
    /\ last.ranked_simple # <<>>
    /\ last.simple.den = Len(Fields)

====
